---- MODULE Spec2Model ----
(***************************************************************************)
(* Model of migration/run_migrations.py (MigrationRunner and main) and of   *)
(* scripts/diagnose.py (ArchonDiagnostics and main).  The two programs      *)
(* share nothing: Spec runs the migration runner, SpecDiag the diagnostics. *)
(*                                                                         *)
(* A string is a sequence of one-character strings, so that equality,      *)
(* substring search, lexicographic comparison and the digit/dot tests of   *)
(* the source are computed and not assumed.  A path is the sequence of its *)
(* parts, as pathlib's Path.parts, the anchor "/" first.                   *)
(***************************************************************************)
EXTENDS Integers, Sequences, FiniteSets, TLC

\* ------------------------------------------------------------------ bounds
MaxFiles == 3
MaxRuns == 2
MaxFaults == 1
MaxEdits == 1

\* ----------------------------------------------------------------- strings
\* The characters used, in code-point order (Python compares str by code point).
Ascii ==
  << ".", "/", "0", "1", "2", "B", "D", "E", "R", "S", "T", "_", "a", "b", "c",
     "d", "e", "g", "i", "k", "l", "m", "n", "o", "p", "q", "r", "s", "t", "u", "v" >>

Ord(c) == CHOOSE i \in 1..Len(Ascii) : Ascii[i] = c

IsDigit(c) == c \in {"0", "1", "2"}

\* a < b for two str values
StrLess(a, b) ==
  \E i \in 1..Len(b) :
     /\ \A j \in 1..(i - 1) : j <= Len(a) /\ a[j] = b[j]
     /\ \/ i = Len(a) + 1
        \/ i <= Len(a) /\ Ord(a[i]) < Ord(b[i])

\* needle in hay, for two str values
Contains(hay, needle) ==
  \E i \in 0..(Len(hay) - Len(needle)) :
     \A j \in 1..Len(needle) : hay[i + j] = needle[j]

\* ------------------------------------------------------------------- names
COMPLETE_SETUP ==
  <<"c","o","m","p","l","e","t","e","_","s","e","t","u","p",".","s","q","l">>
RESET_DB == <<"R","E","S","E","T","_","D","B",".","s","q","l">>
BACKUP_DATABASE ==
  <<"b","a","c","k","u","p","_","d","a","t","a","b","a","s","e",".","s","q","l">>
V010 == <<"0",".","1",".","0">>
V020 == <<"0",".","2",".","0">>
INIT_001 == <<"0","0","1","_","i","n","i","t",".","s","q","l">>
ADD_TABLE_002 == <<"0","0","2","_","a","d","d","_","t","a","b","l","e",".","s","q","l">>
HOTFIX == <<"v","0",".","1",".","0",".","s","q","l">>
SEED == <<"s","e","e","d",".","s","q","l">>
A_SQL == <<"a",".","s","q","l">>
OLD == <<"o","l","d">>
BASE == <<"b","a","s","e">>

utility_scripts == {RESET_DB, BACKUP_DATABASE}

\* ------------------------------------------------------------------- paths
migrations_dir == << <<"/">>, <<"m","i","g","r","a","t","i","o","n">> >>

PathName(path) == path[Len(path)]
PathParent(path) == SubSeq(path, 1, Len(path) - 1)

RECURSIVE JoinParts(_)
JoinParts(parts) ==
  IF Len(parts) = 0 THEN <<>>
  ELSE IF Len(parts) = 1 THEN parts[1]
  ELSE parts[1] \o <<"/">> \o JoinParts(Tail(parts))

\* str(path) of an absolute path: the anchor, then the parts joined by "/"
PathStr(path) == path[1] \o JoinParts(Tail(path))

RootFile(name) == migrations_dir \o <<name>>
SubFile(dir, name) == migrations_dir \o <<dir, name>>

\* The files that may be on disk under migrations_dir.
Universe ==
  { RootFile(COMPLETE_SETUP), SubFile(V010, INIT_001), SubFile(V010, ADD_TABLE_002),
    SubFile(V020, COMPLETE_SETUP), RootFile(RESET_DB), RootFile(BACKUP_DATABASE),
    RootFile(HOTFIX), SubFile(V020, A_SQL), RootFile(SEED), SubFile(OLD, SEED),
    RootFile(INIT_001) }

\* ---------------------------------------------------------------- sort_key
sort_key(path) ==
  LET name == PathName(path) IN
    IF name = COMPLETE_SETUP THEN <<0, <<>>, name>>
    ELSE IF Contains(PathStr(path), V010) THEN <<1, PathStr(PathParent(path)), name>>
    ELSE <<2, PathStr(PathParent(path)), name>>

\* Python's tuple comparison k1 < k2 on (int, str, str)
KeyLess(k1, k2) ==
  \/ k1[1] < k2[1]
  \/ k1[1] = k2[1] /\ StrLess(k1[2], k2[2])
  \/ k1[1] = k2[1] /\ k1[2] = k2[2] /\ StrLess(k1[3], k2[3])

\* --------------------------------------------------- get_version_from_path
RECURSIVE FirstVersionPart(_)
FirstVersionPart(parts) ==
  IF Len(parts) = 0 THEN BASE
  ELSE LET part == parts[1] IN
    IF Len(part) > 0 /\ IsDigit(part[1]) /\ Contains(part, <<".">>) THEN part
    ELSE FirstVersionPart(Tail(parts))

get_version_from_path(filepath) == FirstVersionPart(filepath)

\* ---------------------------------------------------------- get_file_checksum
\* MD5 of the file's bytes.  The contents of a file are numbered 0, 1, ... (one
\* number per revision of the file); the digest is modelled as an injective
\* scrambling of that number, so a digest differs from the content itself and
\* two revisions never share a digest.
get_file_checksum(content) == (11 * content + 5) % 32

\* ------------------------------------------------------------------- state
VARIABLES
  disk,             \* [path -> content] of the files under migrations_dir
  table,            \* rows of archon_migrations
  pc,               \* position of the process: "idle" when none is running
  fresh,            \* self.fresh
  conn,             \* self.conn: "none", "open" or "closed"
  migration_files,  \* the ordered list run_migrations iterates over
  idx,              \* index of the next file of migration_files
  success_count,
  fail_count,
  result,           \* what run_migrations returns: "none", "true", "false", "raised"
  exit_code,        \* exit code of the last finished process, -1 before any
  log,              \* what the current (or last) run did, in order
  prev,             \* summary of the run before the current one
  runs,             \* processes started
  faults,           \* failures injected so far
  edits,            \* changes made to the disk so far
  start_disk,       \* the disk as it was when the current run started
  dpc,              \* diagnostics: the next step of run_all_checks
  results,          \* diagnostics: self.results, as (check_name, status) pairs
  attempted,        \* diagnostics: the checks called so far, in order
  dexit             \* diagnostics: exit code of the process, -1 while it runs

vars == <<disk, table, pc, fresh, conn, migration_files, idx, success_count,
          fail_count, result, exit_code, log, prev, runs, faults, edits, start_disk,
          dpc, results, attempted, dexit>>

dbVars == <<disk, table>>
loopVars == <<migration_files, idx, success_count, fail_count>>
histVars == <<prev, runs, edits, start_disk>>
diagVars == <<dpc, results, attempted, dexit>>

Event(op, file, outcome) == [op |-> op, file |-> file, outcome |-> outcome]
NoFile == <<>>

NoRun == [ran |-> FALSE, fresh |-> FALSE, disk |-> <<>>, discovered |-> FALSE,
          order |-> <<>>, result |-> "none", exit_code |-> -1, not_ok |-> {},
          failed |-> {}]

\* Subsets of at most n elements of S
SmallSubsets(S, n) == {T \in SUBSET S : Cardinality(T) <= n}

Init ==
  /\ disk \in UNION {[T -> {0}] : T \in SmallSubsets(Universe, MaxFiles)}
  /\ table = {}
  /\ pc = "idle"
  /\ fresh = FALSE
  /\ conn = "none"
  /\ migration_files = <<>>
  /\ idx = 1
  /\ success_count = 0
  /\ fail_count = 0
  /\ result = "none"
  /\ exit_code = -1
  /\ log = <<>>
  /\ prev = NoRun
  /\ runs = 0
  /\ faults = 0
  /\ edits = 0
  /\ start_disk = disk
  /\ dpc = "containers"
  /\ results = <<>>
  /\ attempted = <<>>
  /\ dexit = -1

\* A step of the environment may fail only while the failure budget lasts.
CanFail == faults < MaxFaults

\* ------------------------------------------------------------------- main
\* main(): parse --fresh, build the runner (conn = None), call run_migrations.
StartRun(f) ==
  /\ pc = "idle"
  /\ runs < MaxRuns
  /\ prev' = IF runs = 0 THEN NoRun
             ELSE [ran |-> TRUE, fresh |-> fresh, disk |-> start_disk,
                   discovered |-> \E i \in 1..Len(log) : log[i].op = "discover",
                   order |-> migration_files, result |-> result,
                   exit_code |-> exit_code,
                   not_ok |-> {log[i].file : i \in {j \in 1..Len(log) :
                                 /\ log[j].op = "execute_migration"
                                 /\ log[j].outcome \notin {"skipped", "succeeded"}}},
                   failed |-> {log[i].file : i \in {j \in 1..Len(log) :
                                 /\ log[j].op = "execute_migration"
                                 /\ log[j].outcome \in {"failed_sql", "failed_insert"}}}]
  /\ runs' = runs + 1
  /\ fresh' = f
  /\ conn' = "none"
  /\ pc' = "connect"
  /\ migration_files' = <<>>
  /\ idx' = 1
  /\ success_count' = 0
  /\ fail_count' = 0
  /\ result' = "none"
  /\ log' = <<>>
  /\ start_disk' = disk
  /\ UNCHANGED <<disk, table, exit_code, faults, edits, diagVars>>

\* sys.exit(0 if success else 1); an exception that leaves run_migrations is
\* not caught by main, and the interpreter then exits with code 1.
ExitCode(res) == IF res = "true" THEN 0 ELSE 1

\* ---------------------------------------------------------------- connect
\* connect() and the test of its result at the top of run_migrations.
Connect ==
  /\ pc = "connect"
  /\ \/ \* psycopg2.connect and set_isolation_level succeed
        /\ conn' = "open"
        /\ log' = Append(log, Event("connect", NoFile, "ok"))
        /\ pc' = IF fresh THEN "reset" ELSE "create"
        /\ UNCHANGED <<result, exit_code, faults>>
     \/ \* psycopg2.connect raises: self.conn stays None
        /\ CanFail
        /\ faults' = faults + 1
        /\ conn' = "none"
        /\ log' = Append(log, Event("connect", NoFile, "failed"))
        /\ result' = "false"
        /\ exit_code' = ExitCode("false")
        /\ pc' = "idle"
     \/ \* set_isolation_level raises: self.conn is already assigned
        /\ CanFail
        /\ faults' = faults + 1
        /\ conn' = "open"
        /\ log' = Append(log, Event("connect", NoFile, "setup_failed"))
        /\ result' = "false"
        /\ exit_code' = ExitCode("false")
        /\ pc' = "idle"
  /\ UNCHANGED <<disk, table, fresh, loopVars, histVars, diagVars>>

\* ------------------------------------------------------------ execute_reset
\* RESET_DB.sql drops every Archon table, the tracking table included.
\* As AfterReset, with the "return False" after a failed reset left out.
AfterReset_Continue(ok) == "create"

\* run_migrations: "if not self.execute_reset(): ... return False"
AfterReset(ok) == IF ok THEN "create" ELSE "finally"

ExecuteReset ==
  /\ pc = "reset"
  /\ \/ \* reset_file.exists() is false
        /\ RootFile(RESET_DB) \notin DOMAIN disk
        /\ log' = Append(log, Event("reset", RootFile(RESET_DB), "missing"))
        /\ result' = "false"
        /\ pc' = AfterReset(FALSE)
        /\ UNCHANGED <<table, faults>>
     \/ /\ RootFile(RESET_DB) \in DOMAIN disk
        /\ table' = {}
        /\ log' = Append(log, Event("reset", RootFile(RESET_DB), "ok"))
        /\ pc' = AfterReset(TRUE)
        /\ UNCHANGED <<result, faults>>
     \/ \* reading or executing the script raises
        /\ RootFile(RESET_DB) \in DOMAIN disk
        /\ CanFail
        /\ faults' = faults + 1
        /\ log' = Append(log, Event("reset", RootFile(RESET_DB), "failed"))
        /\ result' = "false"
        /\ pc' = AfterReset(FALSE)
        /\ UNCHANGED table
  /\ UNCHANGED <<disk, fresh, conn, exit_code, loopVars, histVars, diagVars>>

\* ---------------------------------------------------- create_migrations_table
CreateMigrationsTable ==
  /\ pc = "create"
  /\ \/ \* CREATE TABLE / INDEX IF NOT EXISTS
        /\ log' = Append(log, Event("create_table", NoFile, "ok"))
        /\ pc' = "discover"
        /\ UNCHANGED <<result, faults>>
     \/ \* a statement raises: nothing in run_migrations catches it
        /\ CanFail
        /\ faults' = faults + 1
        /\ log' = Append(log, Event("create_table", NoFile, "raised"))
        /\ result' = "raised"
        /\ pc' = "finally"
  /\ UNCHANGED <<disk, table, fresh, conn, exit_code, loopVars, histVars, diagVars>>

\* ---------------------------------------------------------------- discovery
EndsWith(str, suffix) ==
  /\ Len(str) >= Len(suffix)
  /\ SubSeq(str, Len(str) - Len(suffix) + 1, Len(str)) = suffix

DOT_SQL == <<".", "s", "q", "l">>

\* dir.glob("*.sql") on the disk d
GlobSql(d, dir) ==
  {path \in DOMAIN d : PathParent(path) = dir /\ EndsWith(PathName(path), DOT_SQL)}

\* the directories migrations_dir.iterdir() yields
SubDirs(d) ==
  {PathParent(path) : path \in {q \in DOMAIN d : Len(q) > Len(migrations_dir) + 1}}

\* all_files: the root-level files and those of each subdirectory
AllFiles(d) ==
  GlobSql(d, migrations_dir) \cup UNION {GlobSql(d, subdir) : subdir \in SubDirs(d)}

SortKeyOf == [path \in Universe |-> sort_key(path)]

\* The orders in which iterating over the set all_files may yield its elements.
RECURSIVE Enumerations(_)
Enumerations(S) ==
  IF S = {} THEN {<<>>}
  ELSE UNION {{<<x>> \o e : e \in Enumerations(S \ {x})} : x \in S}

\* sorted() is stable: an element goes after the elements whose key is not greater.
InsertStable(seq, x) ==
  LET n == Cardinality({i \in 1..Len(seq) : ~KeyLess(SortKeyOf[x], SortKeyOf[seq[i]])})
  IN SubSeq(seq, 1, n) \o <<x>> \o SubSeq(seq, n + 1, Len(seq))

RECURSIVE SortedByKey(_)
SortedByKey(seq) ==
  IF Len(seq) = 0 THEN <<>>
  ELSE InsertStable(SortedByKey(SubSeq(seq, 1, Len(seq) - 1)), seq[Len(seq)])

\* As NotUtility, with only the reset script filtered out.
NotUtility_ResetOnly(path) == PathName(path) # RESET_DB

\* [f for f in sorted(all_files, key=sort_key) if f.name not in utility_scripts]
NotUtility(path) == PathName(path) \notin utility_scripts

MigrationFiles(enumeration) == SelectSeq(SortedByKey(enumeration), NotUtility)

Discover ==
  /\ pc = "discover"
  /\ \E enumeration \in Enumerations(AllFiles(disk)) :
       /\ migration_files' = MigrationFiles(enumeration)
       /\ log' = Append(log, Event("discover", NoFile, "ok"))
       /\ IF Len(migration_files') = 0
            THEN result' = "true" /\ pc' = "finally"
            ELSE result' = result /\ pc' = "loop"
  /\ idx' = 1
  /\ success_count' = 0
  /\ fail_count' = 0
  /\ UNCHANGED <<disk, table, fresh, conn, exit_code, faults, histVars, diagVars>>

\* -------------------------------------------------------- execute_migration
Row(version, migration_name, checksum) ==
  [version |-> version, migration_name |-> migration_name, checksum |-> checksum]

\* As is_migration_executed, with the two query parameters in the wrong order.
is_migration_executed_Swapped(version, migration_name) ==
  \E row \in table : row.version = migration_name /\ row.migration_name = version

is_migration_executed(version, migration_name) ==
  \E row \in table : row.version = version /\ row.migration_name = migration_name

\* As InsertRow, with the INSERT left out.
InsertRow_Omitted(version, migration_name, checksum) == table

\* INSERT ... ON CONFLICT (version, migration_name) DO NOTHING
InsertRow(version, migration_name, checksum) ==
  IF is_migration_executed(version, migration_name) THEN table
  ELSE table \cup {Row(version, migration_name, checksum)}

\* One iteration of the loop of run_migrations: execute_migration(migration_file)
\* and the count of its result.
ExecuteMigration ==
  /\ pc = "loop"
  /\ idx <= Len(migration_files)
  /\ LET filepath == migration_files[idx]
         migration_name == PathName(filepath)
         version == get_version_from_path(filepath)
         checksum == get_file_checksum(disk[filepath])
         Returned(outcome, ok) ==
           /\ log' = Append(log, Event("execute_migration", filepath, outcome))
           /\ success_count' = IF ok THEN success_count + 1 ELSE success_count
           /\ fail_count' = IF ok THEN fail_count ELSE fail_count + 1
           /\ idx' = idx + 1
           /\ pc' = IF idx' > Len(migration_files) THEN "notify" ELSE "loop"
           /\ result' = result
         Raised(outcome) ==
           /\ log' = Append(log, Event("execute_migration", filepath, outcome))
           /\ UNCHANGED <<success_count, fail_count, idx, table>>
           /\ result' = "raised"
           /\ pc' = "finally"
     IN \/ \* get_file_checksum raises (the file cannot be read): outside the try
           /\ CanFail
           /\ faults' = faults + 1
           /\ Raised("raised_checksum")
        \/ \* the SELECT of is_migration_executed raises: outside the try
           /\ CanFail
           /\ faults' = faults + 1
           /\ Raised("raised_select")
        \/ \* already recorded: skipped, reported as True
           /\ is_migration_executed(version, migration_name)
           /\ Returned("skipped", TRUE)
           /\ UNCHANGED <<table, faults>>
        \/ \* reading the file or executing its SQL raises: caught, False
           /\ ~is_migration_executed(version, migration_name)
           /\ CanFail
           /\ faults' = faults + 1
           /\ Returned("failed_sql", FALSE)
           /\ UNCHANGED table
        \/ \* the SQL ran, the INSERT raises: caught, False, no row
           /\ ~is_migration_executed(version, migration_name)
           /\ CanFail
           /\ faults' = faults + 1
           /\ Returned("failed_insert", FALSE)
           /\ UNCHANGED table
        \/ \* the SQL ran and the row is recorded
           /\ ~is_migration_executed(version, migration_name)
           /\ table' = InsertRow(version, migration_name, checksum)
           /\ Returned("succeeded", TRUE)
           /\ UNCHANGED faults
  /\ UNCHANGED <<disk, fresh, conn, migration_files, exit_code, histVars, diagVars>>

\* ------------------------------------------------- after the loop: NOTIFY
\* As NotifyWanted, with >= for >.
NotifyWanted_Always(successes) == successes >= 0

\* "if success_count > 0:" guards the NOTIFY
NotifyWanted(successes) == successes > 0

\* As RunResult, with the success count tested in place of the failure count.
RunResult_BySuccess(successes, failures) == IF successes > 0 THEN "true" ELSE "false"

\* "return fail_count == 0"
RunResult(successes, failures) == IF failures = 0 THEN "true" ELSE "false"

Notify ==
  /\ pc = "notify"
  /\ log' = IF NotifyWanted(success_count)
              THEN Append(log, Event("notify", NoFile, "ok"))
              ELSE log
  /\ result' = RunResult(success_count, fail_count)
  /\ pc' = "finally"
  /\ UNCHANGED <<disk, table, fresh, conn, exit_code, faults, loopVars, histVars, diagVars>>

\* ------------------------------------- finally: close, then the process exits
Finally ==
  /\ pc = "finally"
  /\ IF conn # "none"
       THEN conn' = "closed" /\ log' = Append(log, Event("close", NoFile, "ok"))
       ELSE conn' = conn /\ log' = log
  /\ exit_code' = ExitCode(result)
  /\ pc' = "idle"
  /\ UNCHANGED <<disk, table, fresh, result, faults, loopVars, histVars, diagVars>>

\* --------------------------------------------- the disk between two runs
\* The disk changes only while no process runs; what it was before the first
\* run is Init's choice, and what it becomes after the last is never read.
BetweenRuns == pc = "idle" /\ 0 < runs /\ runs < MaxRuns

EditFile ==
  /\ BetweenRuns
  /\ edits < MaxEdits
  /\ \E path \in DOMAIN disk : disk' = [disk EXCEPT ![path] = @ + 1]
  /\ edits' = edits + 1
  /\ UNCHANGED <<table, pc, fresh, conn, result, exit_code, log, loopVars,
                 prev, runs, faults, start_disk, diagVars>>

AddFile ==
  /\ BetweenRuns
  /\ edits < MaxEdits
  /\ Cardinality(DOMAIN disk) < MaxFiles
  /\ \E path \in Universe \ DOMAIN disk :
       disk' = [q \in DOMAIN disk \cup {path} |-> IF q = path THEN 0 ELSE disk[q]]
  /\ edits' = edits + 1
  /\ UNCHANGED <<table, pc, fresh, conn, result, exit_code, log, loopVars,
                 prev, runs, faults, start_disk, diagVars>>

Next ==
  \/ \E f \in BOOLEAN : StartRun(f)
  \/ Connect
  \/ ExecuteReset
  \/ CreateMigrationsTable
  \/ Discover
  \/ ExecuteMigration
  \/ Notify
  \/ Finally
  \/ EditFile
  \/ AddFile

Spec == Init /\ [][Next]_vars

\* ======================================================================
\* scripts/diagnose.py
\* ======================================================================
MaxContainers == 2

\* str.lower() on the characters used
Lower(c) == CASE c = "U" -> "u" [] c = "E" -> "e" [] OTHER -> c
LowerStr(str) == [i \in 1..Len(str) |-> Lower(str[i])]

UNHEALTHY == <<"u","n","h","e","a","l","t","h","y">>
UP_LOWER == <<"u","p">>
STATUS_UP == <<"U","p">>
STATUS_UP_UNHEALTHY == <<"U","p"," ","(","u","n","h","e","a","l","t","h","y",")">>
STATUS_EXITED == <<"E","x","i","t","e","d">>

DiagnosticResult(check_name, status) == [check_name |-> check_name, status |-> status]

\* What run_command returns as code: 0, the command's non-zero exit code, or
\* -1 when the command timed out or could not be started.
ExitCodes == {0, 1, -1}

\* One line of the output of "docker ps": empty, not JSON, or a JSON object.
PsLine(kind, name, status) == [kind |-> kind, name |-> name, status |-> status]
PsLines ==
  { PsLine("empty", "", <<>>), PsLine("garbage", "", <<>>),
    PsLine("json", "archon-server", STATUS_UP),
    PsLine("json", "archon-server", STATUS_UP_UNHEALTHY),
    PsLine("json", "archon-ui", STATUS_EXITED) }

PsOutputs == UNION {[1..n -> PsLines] : n \in 0..MaxContainers}

\* the if / elif / else on status.lower() of check_container_status
ContainerStatus(status) ==
  IF Contains(LowerStr(status), UNHEALTHY) THEN "fail"
  ELSE IF Contains(LowerStr(status), UP_LOWER) THEN "pass"
  ELSE "warn"

\* The loop over the lines of check_container_status: the results after it,
\* and whether json.loads raised (nothing catches it).
RECURSIVE ContainerLoop(_, _)
ContainerLoop(lines, acc) ==
  IF Len(lines) = 0 THEN [results |-> acc, raised |-> FALSE]
  ELSE LET line == Head(lines) IN
    IF line.kind = "empty" THEN ContainerLoop(Tail(lines), acc)
    ELSE IF line.kind = "garbage" THEN [results |-> acc, raised |-> TRUE]
    ELSE ContainerLoop(Tail(lines),
           Append(acc, DiagnosticResult(<<"Container", line.name>>,
                                        ContainerStatus(line.status))))

CheckContainerStatus ==
  /\ dpc = "containers"
  /\ attempted' = Append(attempted, "check_container_status")
  /\ \/ \* docker failed, timed out or is not installed
        /\ \E code \in ExitCodes \ {0} :
             results' = Append(results, DiagnosticResult(<<"Docker Status">>, "fail"))
        /\ dpc' = "environment"
        /\ dexit' = dexit
     \/ \E stdout \in PsOutputs :
          LET r == ContainerLoop(stdout, results) IN
            /\ results' = r.results
            /\ IF r.raised
                 THEN dpc' = "exited" /\ dexit' = 1   \* traceback of the interpreter
                 ELSE dpc' = "environment" /\ dexit' = dexit
  /\ UNCHANGED <<dbVars, pc, fresh, conn, result, exit_code, log, faults, loopVars, histVars>>

\* ------------------------------------------------ check_environment_variables
Response(code, out) == [code |-> code, out |-> out]

EnvChecks ==
  << <<"archon-server", "SUPABASE_URL">>, <<"archon-server", "SUPABASE_SERVICE_KEY">>,
     <<"archon-server", "ARCHON_SERVER_PORT">> >>

EnvResponses == {Response(0, "value"), Response(0, ""), Response(1, ""), Response(-1, "")}

EnvResult(check, r) ==
  DiagnosticResult(<<"EnvVar", check[1], check[2]>>,
                   IF r.code # 0 \/ r.out = "" THEN "fail" ELSE "pass")

CheckEnvironmentVariables ==
  /\ dpc = "environment"
  /\ attempted' = Append(attempted, "check_environment_variables")
  /\ \E rs \in [1..Len(EnvChecks) -> EnvResponses] :
       results' = results \o [i \in 1..Len(EnvChecks) |-> EnvResult(EnvChecks[i], rs[i])]
  /\ dpc' = "logs"
  /\ UNCHANGED <<dbVars, pc, fresh, conn, result, exit_code, log, faults, loopVars,
                 histVars, dexit>>

\* ------------------------------------------------------ analyze_container_logs
LogServices == <<"archon-server", "archon-mcp", "archon-ui">>

\* the keys of error_patterns, in the order of the dict
ErrorTypes ==
  <<"ImportError", "ModuleNotFoundError", "Connection Refused", "Traceback",
    "Startup Failed", "Database Error">>

\* What "docker logs" gave: the code, the error patterns its output matches,
\* and whether it contains "started successfully".
LogResponse(code, matches, started) ==
  [code |-> code, matches |-> matches, started |-> started]

LogResponses ==
  { LogResponse(1, {}, FALSE), LogResponse(0, {}, TRUE),
    LogResponse(0, {"ImportError", "Traceback"}, FALSE) }

IsMatch(r, error_type) == error_type \in r.matches

ServiceLogResults(service, r) ==
  IF r.code # 0 THEN <<>>
  ELSE LET found == SelectSeq(ErrorTypes, LAMBDA t : IsMatch(r, t)) IN
    [i \in 1..Len(found) |-> DiagnosticResult(<<"Log Error", service, found[i]>>, "fail")]
    \o (IF r.started THEN <<DiagnosticResult(<<"Startup", service>>, "pass")>> ELSE <<>>)

AnalyzeContainerLogs ==
  /\ dpc = "logs"
  /\ attempted' = Append(attempted, "analyze_container_logs")
  /\ \E rs \in [1..Len(LogServices) -> LogResponses] :
       results' = results \o ServiceLogResults(LogServices[1], rs[1])
                          \o ServiceLogResults(LogServices[2], rs[2])
                          \o ServiceLogResults(LogServices[3], rs[3])
  /\ dpc' = "health"
  /\ UNCHANGED <<dbVars, pc, fresh, conn, result, exit_code, log, faults, loopVars,
                 histVars, dexit>>

\* ------------------------------------------------------ check_health_endpoints
Endpoints == <<"Archon Server", "Archon UI">>

\* curl's exit code and the %{http_code} it printed
HealthResponses == {Response(0, "200"), Response(0, "500"), Response(1, "000"), Response(-1, "")}

HealthResult(name, r) ==
  DiagnosticResult(<<"Health", name>>,
                   IF r.code = 0 /\ r.out = "200" THEN "pass" ELSE "fail")

CheckHealthEndpoints ==
  /\ dpc = "health"
  /\ attempted' = Append(attempted, "check_health_endpoints")
  /\ \E rs \in [1..Len(Endpoints) -> HealthResponses] :
       results' = results \o [i \in 1..Len(Endpoints) |-> HealthResult(Endpoints[i], rs[i])]
  /\ dpc' = "resources"
  /\ UNCHANGED <<dbVars, pc, fresh, conn, result, exit_code, log, faults, loopVars,
                 histVars, dexit>>

\* -------------------------------------------------------- check_resource_usage
\* "docker stats": the code, whether stdout parses, and the CPU percentage.
StatsResponse(code, parses, cpu) == [code |-> code, parses |-> parses, cpu |-> cpu]

StatsResponses ==
  { StatsResponse(0, TRUE, 12), StatsResponse(0, TRUE, 93), StatsResponse(0, FALSE, 0),
    StatsResponse(1, FALSE, 0), StatsResponse(-1, FALSE, 0) }

ResourceResults(r) ==
  IF r.code = 0 /\ r.parses
    THEN <<DiagnosticResult(<<"Resource: CPU">>, IF r.cpu > 80 THEN "warn" ELSE "pass")>>
    ELSE <<>>

CheckResourceUsage ==
  /\ dpc = "resources"
  /\ attempted' = Append(attempted, "check_resource_usage")
  /\ \E r \in StatsResponses : results' = results \o ResourceResults(r)
  /\ dpc' = "network"
  /\ UNCHANGED <<dbVars, pc, fresh, conn, result, exit_code, log, faults, loopVars,
                 histVars, dexit>>

\* -------------------------------------------------- check_network_connectivity
HTTP_200 == <<"2","0","0">>
HTTP_401 == <<"4","0","1">>

NetworkResponses ==
  {Response(0, HTTP_200), Response(0, HTTP_401), Response(1, <<>>), Response(-1, <<>>)}

\* code == 0 and "200" in stdout
NetworkResult(r) ==
  DiagnosticResult(<<"Network: Supabase">>,
                   IF r.code = 0 /\ Contains(r.out, HTTP_200) THEN "pass" ELSE "fail")

CheckNetworkConnectivity ==
  /\ dpc = "network"
  /\ attempted' = Append(attempted, "check_network_connectivity")
  /\ \E r \in NetworkResponses : results' = Append(results, NetworkResult(r))
  /\ dpc' = "summary"
  /\ UNCHANGED <<dbVars, pc, fresh, conn, result, exit_code, log, faults, loopVars,
                 histVars, dexit>>

\* --------------------------------------------------------------- print_summary
CountStatus(rs, status) == Cardinality({i \in 1..Len(rs) : rs[i].status = status})

\* sys.exit(1 if fail_count > 0 else 0)
SummaryExit(fail_total) == IF fail_total > 0 THEN 1 ELSE 0

PrintSummary ==
  /\ dpc = "summary"
  /\ dexit' = SummaryExit(CountStatus(results, "fail"))
  /\ dpc' = "exited"
  /\ UNCHANGED <<dbVars, pc, fresh, conn, result, exit_code, log, faults, loopVars,
                 histVars, results, attempted>>

\* run_all_checks: the six checks in this order, then print_summary
AllChecks ==
  <<"check_container_status", "check_environment_variables", "analyze_container_logs",
    "check_health_endpoints", "check_resource_usage", "check_network_connectivity">>

DiagInit == Init /\ DOMAIN disk = {}

DiagNext ==
  \/ CheckContainerStatus
  \/ CheckEnvironmentVariables
  \/ AnalyzeContainerLogs
  \/ CheckHealthEndpoints
  \/ CheckResourceUsage
  \/ CheckNetworkConnectivity
  \/ PrintSummary

SpecDiag == DiagInit /\ [][DiagNext]_vars

\* ======================================================================
\* Properties
\* ======================================================================
\* A process has run to its end and none is running.
RunFinished == pc = "idle" /\ runs > 0

\* The positions of the log at which execute_migration was called.
Calls == {i \in 1..Len(log) : log[i].op = "execute_migration"}

\* The SQL of the file was sent to the database.
SqlRan == {"succeeded", "failed_sql", "failed_insert"}
\* Processing the file ended in an error.
Failed == {"failed_sql", "failed_insert", "raised_checksum", "raised_select"}

OpAt(op) == {i \in 1..Len(log) : log[i].op = op}
OpWith(op, outcome) == {i \in OpAt(op) : log[i].outcome = outcome}

\* The rows of the tracking table for the key of a file.
RowsOf(path) ==
  {row \in table : /\ row.version = get_version_from_path(path)
                   /\ row.migration_name = PathName(path)}

\* A second normal run directly after a normal run, on the same set of files.
SecondNormalRun ==
  /\ RunFinished
  /\ prev.ran /\ ~prev.fresh /\ ~fresh
  /\ DOMAIN prev.disk = DOMAIN start_disk

\* The run met no error of its own: connection, tracking table, reading a
\* file for its checksum, looking a file up.
NoErrorInRun == \A i \in 1..Len(log) : log[i].outcome \in {"ok", "skipped", "succeeded"}

C2_NeverReexecuted ==
  [][ (pc = "loop" /\ ~fresh /\ RowsOf(migration_files[idx]) # {})
        => /\ table' = table
           /\ Len(log') = Len(log) + 1
           /\ log'[Len(log')].file = migration_files[idx]
           /\ log'[Len(log')].outcome \notin SqlRan ]_vars

\* A file was just skipped whose recorded checksum is not its fresh one.
C2_Witness ==
  /\ ~fresh
  /\ Len(log) > 0
  /\ LET last == log[Len(log)] IN
       /\ last.op = "execute_migration"
       /\ last.outcome = "skipped"
       /\ \E row \in RowsOf(last.file) :
            row.checksum # get_file_checksum(disk[last.file])

\* ---------------------------------------------------------------------- C3
IsUtility(path) == PathName(path) \in utility_scripts

\* The positions of the log at which the SQL of the file was sent to the database.
ExecutionsOf(path) ==
  {i \in 1..Len(log) :
     /\ log[i].file = path
     /\ \/ log[i].op = "reset" /\ log[i].outcome \in {"ok", "failed"}
        \/ log[i].op = "execute_migration" /\ log[i].outcome \in SqlRan}

C4_Original ==
  (RunFinished /\ \E i \in Calls : log[i].outcome \in Failed) =>
    /\ Cardinality(Calls) = Len(migration_files)
    /\ exit_code # 0

ClaimedRank(path) ==
  IF PathName(path) = COMPLETE_SETUP THEN 0
  ELSE IF PathName(PathParent(path)) = V010 THEN 1
  ELSE 2

ParentThenNameLeq(a, b) ==
  \/ StrLess(PathStr(PathParent(a)), PathStr(PathParent(b)))
  \/ /\ PathParent(a) = PathParent(b)
     /\ (PathName(a) = PathName(b) \/ StrLess(PathName(a), PathName(b)))

\* C7: the files run in this order: complete_setup.sql, then the files under
\* the directory 0.1.0, then the remaining files by parent directory and name.
C7_Original ==
  \A i, j \in 1..Len(migration_files) :
    i < j =>
      LET a == migration_files[i]
          b == migration_files[j]
      IN /\ ClaimedRank(a) <= ClaimedRank(b)
         /\ (ClaimedRank(a) = 2 /\ ClaimedRank(b) = 2) => ParentThenNameLeq(a, b)

\* ---------------------------------------------------------------------- C8
\* C8: two discoveries over the same set of files return the same sequence.
C8_Original ==
  ( /\ prev.discovered
    /\ OpAt("discover") # {}
    /\ DOMAIN prev.disk = DOMAIN start_disk ) => migration_files = prev.order

\* ---------------------------------------------------------------------- C9
ResetNotDone == OpWith("reset", "missing") \cup OpWith("reset", "failed")

\* C9: in a fresh-install run the tracking table is created only after the
\* reset script ran; when the script is missing or fails, the run creates no
\* tracking table, processes no migration file and ends as a failure.
C9_ResetFirst ==
  /\ fresh => \A c \in OpAt("create_table") :
                \E r \in OpWith("reset", "ok") : r < c
  /\ ResetNotDone # {} =>
       /\ OpAt("create_table") = {}
       /\ OpAt("discover") = {}
       /\ Calls = {}
       /\ pc \in {"finally", "idle"}
       /\ result = "false"
       /\ RunFinished => exit_code = 1

C9_Witness ==
  /\ RunFinished /\ fresh
  /\ OpWith("reset", "failed") # {}
  /\ \E path \in DOMAIN start_disk : ~IsUtility(path)
  /\ exit_code = 1

\* --------------------------------------------------------------------- C10
\* C10: a run opens the connection at most once, and when it has returned,
\* whichever way, a connection it opened is closed.
C10_Original ==
  /\ Cardinality(OpAt("connect")) <= 1
  /\ RunFinished => conn # "open"

\* --------------------------------------------------------------------- C11
DiagExited == dpc = "exited"

\* C11: whatever a check meets (a failed command, a timeout, output it did not
\* expect), every check of run_all_checks is attempted, and the exit code is 1
\* when a recorded result has status fail and 0 otherwise.
C11_Original ==
  DiagExited =>
    /\ attempted = AllChecks
    /\ dexit = (IF CountStatus(results, "fail") > 0 THEN 1 ELSE 0)

\* --------------------------------------------------------------------- C12
\* execute_migration returned False
ReportedFailure == {"failed_sql", "failed_insert"}

\* A normal run whose loop ran to its end, directly after a run.
NormalRunAfterRun ==
  /\ RunFinished /\ prev.ran /\ ~fresh
  /\ OpAt("discover") # {} /\ result \in {"true", "false"}

\* C12 (as stated): a file for which execute_migration reported failure has
\* no row for its (version, name) in the tracking table for the rest of that
\* run; the next run, when it is a normal run, does not skip such a file, and
\* when its loop runs to its end it has sent the file's SQL to the database
\* again.
C12_Original ==
  /\ \A i \in Calls : log[i].outcome \in ReportedFailure => RowsOf(log[i].file) = {}
  /\ (prev.ran /\ ~fresh) =>
       \A i \in Calls : log[i].file \in prev.failed => log[i].outcome # "skipped"
  /\ NormalRunAfterRun =>
       \A f \in prev.failed : \E i \in Calls : log[i].file = f /\ log[i].outcome \in SqlRan

\* --------------------------------------------------------------------- C13
\* A name that starts with a digit and contains a dot.
VersionLike(part) == Len(part) > 0 /\ IsDigit(part[1]) /\ Contains(part, <<".">>)

\* The name of the nearest version-like directory of dirs (the directories of
\* a path, outermost first), 'base' when there is none.
RECURSIVE NearestVersionDir(_)
NearestVersionDir(dirs) ==
  IF Len(dirs) = 0 THEN BASE
  ELSE IF VersionLike(dirs[Len(dirs)]) THEN dirs[Len(dirs)]
  ELSE NearestVersionDir(SubSeq(dirs, 1, Len(dirs) - 1))

\* C13 (as stated): for every discovered file, the version under which the file
\* is looked up and recorded is the name of its nearest version-like ancestor
\* directory, 'base' when it has none, and never the file's own name.
C13_Original ==
  /\ \A i \in 1..Len(migration_files) :
       LET filepath == migration_files[i] IN
         /\ get_version_from_path(filepath) = NearestVersionDir(PathParent(filepath))
         /\ get_version_from_path(filepath) # PathName(filepath)
  /\ \A i \in OpWith("execute_migration", "succeeded") :
       \E row \in table : /\ row.migration_name = PathName(log[i].file)
                          /\ row.version = NearestVersionDir(PathParent(log[i].file))

====
